---- MODULE Spec2Model ----
(***************************************************************************)
(* A model of the EMC test plan generator (src/app.py) and of the test     *)
(* equipment scanner (src/camera_tool.py).                                 *)
(*                                                                         *)
(* A DataFrame is a record [columns, rows]; a row carries its index label  *)
(* and one cell per column.  A cell is a typed value: a string, an         *)
(* integer, a float (kept in tenths) or NaN.  A Series is a sequence of    *)
(* [index, value] pairs.  A Python call either returns a value or raises.  *)
(***************************************************************************)
EXTENDS Integers, Sequences, FiniteSets, TLC

VARIABLES
    pc,           \* position of the modelled call or script run
    df,           \* the DataFrame handed to the function under study
    sel,          \* the five accepted-value lists handed to filter_database
    ret,          \* what the last call returned or raised
    ret2,         \* what filtering ret again with the same lists returned
    cis_numbers,  \* st.session_state["cis_numbers"], once the key is set
    captured_image, \* the photo the camera widget holds, as the text OCR reads in it
    last,         \* the indices the last click asked to remove
    cache,        \* the st.cache_data entry of load_data
    ui            \* what the last run of main wrote to the page

vars == <<pc, df, sel, ret, ret2, cis_numbers, captured_image, last, cache, ui>>

callVars == <<df, sel, ret, ret2>>
scannerVars == <<cis_numbers, captured_image, last>>
pageVars == <<cache, ui>>

(***************************************************************************)
(* Bounds.                                                                 *)
(***************************************************************************)
MaxRows == 2
MaxText == 4
MaxList == 3

(***************************************************************************)
(* Python values.                                                          *)
(***************************************************************************)
PyStr(x) == [t |-> "str", n |-> 0, s |-> x]
PyInt(k) == [t |-> "int", n |-> k, s |-> ""]
PyFloat(tenths) == [t |-> "float", n |-> tenths, s |-> ""]
NaN == [t |-> "nan", n |-> 0, s |-> ""]

None == [isNone |-> TRUE, items |-> << >>]
List(items) == [isNone |-> FALSE, items |-> items]

\* The truth value of an optional list: None and [] are false.
Truthy(x) == ~x.isNone /\ Len(x.items) > 0

Returned(v) == [ok |-> TRUE, value |-> v, exc |-> ""]
Raised(e) == [ok |-> FALSE, value |-> << >>, exc |-> e]
NoCall == [ok |-> FALSE, value |-> << >>, exc |-> "not called"]

\* the entries of a sequence at the positions of S, in their order
RowsAt(rows, S) ==
    [j \in 1..Cardinality(S) |->
        rows[CHOOSE i \in S : Cardinality({k \in S : k <= i}) = j]]

(***************************************************************************)
(* pandas.                                                                 *)
(***************************************************************************)
EmptySeries == << >>

\* DataFrame.index, as the sequence of the rows' labels
IndexOf(d) == [i \in 1..Len(d.rows) |-> d.rows[i].index]

SeriesIndex(series) == [i \in 1..Len(series) |-> series[i].index]

\* DataFrame.get(col, default)
Get(d, col, default) ==
    IF col \in d.columns
    THEN [i \in 1..Len(d.rows) |->
            [index |-> d.rows[i].index, value |-> d.rows[i].cell[col]]]
    ELSE default

\* Series.isin(values)
isin(series, values) ==
    [i \in 1..Len(series) |->
        [index |-> series[i].index,
         value |-> \E k \in 1..Len(values) : values[k] = series[i].value]]

\* the index labels at which a boolean Series is True
TrueLabels(mask) == {mask[j].index : j \in {k \in 1..Len(mask) : mask[k].value}}

\* the rows, in order, whose label is one of labels
RECURSIVE SelectRows(_, _)
SelectRows(rows, labels) ==
    IF rows = << >> THEN << >>
    ELSE IF Head(rows).index \in labels
         THEN <<Head(rows)>> \o SelectRows(Tail(rows), labels)
         ELSE SelectRows(Tail(rows), labels)

\* a plausible slip: the selection loses its first row
getitem_bool_skipfirst(d, mask) ==
    LET kept == SelectRows(d.rows, TrueLabels(mask))
    IN  Returned([d EXCEPT !.rows = IF kept = << >> THEN kept ELSE Tail(kept)])

\* DataFrame.__getitem__ with a boolean Series: the key is aligned to the
\* frame's index, and a frame label the key does not have is an IndexingError
getitem_bool(d, mask) ==
    LET labels == {mask[j].index : j \in 1..Len(mask)}
    IN  IF SeriesIndex(mask) # IndexOf(d)
           /\ \E i \in 1..Len(d.rows) : d.rows[i].index \notin labels
        THEN Raised("IndexingError")
        ELSE Returned([d EXCEPT !.rows = SelectRows(d.rows, TrueLabels(mask))])

\* DataFrame.empty: some axis has length 0
IsEmpty(d) == Len(d.rows) = 0 \/ d.columns = {}

(***************************************************************************)
(* filter_database                                                         *)
(***************************************************************************)
Facets == <<"PRODUCT_FEATURE", "ENTITY", "PORT_TYPE", "VOLTAGE_TYPE", "VOLTAGES">>
FacetSet == {Facets[i] : i \in 1..Len(Facets)}

\* the parameter of filter_database that constrains each column
ParamOf(s, col) ==
    CASE col = "PRODUCT_FEATURE" -> s.product_features
      [] col = "ENTITY"          -> s.entities
      [] col = "PORT_TYPE"       -> s.port_types
      [] col = "VOLTAGE_TYPE"    -> s.voltage_types
      [] col = "VOLTAGES"        -> s.voltages

\* a plausible slip: "if values is not None" in place of "if values", so that
\* an empty list filters every row out
filter_step_isnotnone(r, col, values) ==
    IF ~r.ok \/ values.isNone THEN r
    ELSE getitem_bool(r.value, isin(Get(r.value, col, EmptySeries), values.items))

\* one "if values: filtered_df = filtered_df[...isin(values)]" statement; an
\* exception raised by an earlier statement has already left the function
filter_step(r, col, values) ==
    IF ~r.ok \/ ~Truthy(values) THEN r
    ELSE getitem_bool(r.value, isin(Get(r.value, col, EmptySeries), values.items))

filter_database(d, s) ==
    LET r0 == Returned(d)      \* df.copy()
        r1 == filter_step(r0, "PRODUCT_FEATURE", s.product_features)
        r2 == filter_step(r1, "ENTITY", s.entities)
        r3 == filter_step(r2, "PORT_TYPE", s.port_types)
        r4 == filter_step(r3, "VOLTAGE_TYPE", s.voltage_types)
        r5 == filter_step(r4, "VOLTAGES", s.voltages)
    IN  r5

(***************************************************************************)
(* The calls of filter_database that are checked: every frame of at most   *)
(* MaxRows rows drawn from FacetRows, with all five facet columns or with  *)
(* one of them absent, and every choice of the five lists.                 *)
(***************************************************************************)
ArgLists == {None, List(<< >>), List(<<PyStr("a")>>), List(<<PyStr("b"), PyStr("z")>>)}

Selections ==
    [product_features : ArgLists, entities : ArgLists, port_types : ArgLists,
     voltage_types : ArgLists, voltages : ArgLists]

NoSelection ==
    [product_features |-> None, entities |-> None, port_types |-> None,
     voltage_types |-> None, voltages |-> None]

\* the rows: "a" in every facet, "b" in one facet, no value in one facet
FacetRows ==
    {[c \in FacetSet |-> PyStr("a")]}
    \cup {[c \in FacetSet |-> IF c = other THEN PyStr("b") ELSE PyStr("a")] : other \in FacetSet}
    \cup {[c \in FacetSet |-> IF c = "VOLTAGES" THEN NaN ELSE PyStr("a")]}

\* the frames read_csv builds from the given rows without the missing
\* columns: a RangeIndex from 0
Frames(columns, pool, missing) ==
    UNION {{[columns |-> columns \ missing,
             rows |-> [i \in 1..n |->
                        [index |-> i - 1,
                         cell |-> [c \in columns \ missing |-> cells[i][c]]]]] :
               cells \in [1..n -> pool]} : n \in 0..MaxRows}

FilterFrames ==
    UNION {Frames(FacetSet, FacetRows, missing) : missing \in {{}} \cup {{c} : c \in FacetSet}}

NoFrame == [columns |-> {}, rows |-> << >>]

\* the parts of the state a specification of one function leaves alone
NoPhoto == [isNone |-> TRUE, text |-> ""]
ScannerIdle ==
    /\ cis_numbers = [present |-> FALSE, items |-> << >>]
    /\ captured_image = NoPhoto
    /\ last = {}
PageIdle ==
    /\ cache = [hit |-> FALSE, failed |-> FALSE, data |-> NoFrame]
    /\ ui = << >>
CallIdle ==
    /\ df = NoFrame
    /\ sel = NoSelection
    /\ ret = NoCall
    /\ ret2 = NoCall

InitFilter ==
    /\ pc = "ready"
    /\ df \in FilterFrames
    /\ sel = NoSelection
    /\ ret = NoCall
    /\ ret2 = NoCall
    /\ ScannerIdle
    /\ PageIdle

\* filter_database(df, ...) is called
CallFilter ==
    /\ pc = "ready"
    /\ \E s \in Selections :
          /\ sel' = s
          /\ ret' = filter_database(df, s)
    /\ pc' = "returned"
    /\ UNCHANGED <<df, ret2, scannerVars, pageVars>>

\* the frame it returned is filtered again with the same lists
FilterAgain ==
    /\ pc = "returned"
    /\ ret.ok
    /\ ret2' = filter_database(ret.value, sel)
    /\ pc' = "refiltered"
    /\ UNCHANGED <<df, sel, ret, scannerVars, pageVars>>

NextFilter == CallFilter \/ FilterAgain

SpecFilter == InitFilter /\ [][NextFilter]_vars

(***************************************************************************)
(* Python strings: str(), the order of str by code point, sorted, join.    *)
(***************************************************************************)
PyNone == [t |-> "none", n |-> 0, s |-> ""]

\* pd.notnull(x)
notnull(x) == x.t \notin {"nan", "none"}

\* a plausible slip: a whole float is shown without its fractional part
PyFormat_trimmed(v) ==
    CASE v.t = "str"   -> v.s
      [] v.t = "int"   -> ToString(v.n)
      [] v.t = "float" -> IF v.n % 10 = 0 THEN ToString(v.n \div 10)
                          ELSE ToString(v.n \div 10) \o "." \o ToString(v.n % 10)
      [] v.t = "nan"   -> "nan"
      [] v.t = "none"  -> "None"

\* f"{v}": a str as it is, an int in digits, a float with its fractional
\* part (3.0 is "3.0"), NaN as "nan"
PyFormat(v) ==
    CASE v.t = "str"   -> v.s
      [] v.t = "int"   -> ToString(v.n)
      [] v.t = "float" -> ToString(v.n \div 10) \o "." \o ToString(v.n % 10)
      [] v.t = "nan"   -> "nan"
      [] v.t = "none"  -> "None"

\* the characters of the report's lines, in ascending code point order
CodePoints == " %,-./0123456789:ABCDEFGHIJKLMNOPQRSTUVWXYZ[]_abcdefghijklmnopqrstuvwxyz°Â"

ord(c) == CHOOSE i \in 1..Len(CodePoints) : SubSeq(CodePoints, i, i) = c

\* a < b for str: by the first character that differs, a proper prefix first
StrLess(a, b) ==
    LET n == IF Len(a) < Len(b) THEN Len(a) ELSE Len(b)
        differ == {i \in 1..n : SubSeq(a, i, i) # SubSeq(b, i, i)}
    IN  IF differ = {} THEN Len(a) < Len(b)
        ELSE LET k == CHOOSE i \in differ : \A j \in differ : i <= j
             IN  ord(SubSeq(a, k, k)) < ord(SubSeq(b, k, k))

\* a plausible slip: sorted(..., reverse=True)
RECURSIVE sorted_reversed(_)
sorted_reversed(S) ==
    IF S = {} THEN << >>
    ELSE LET m == CHOOSE x \in S : \A y \in S : x = y \/ StrLess(y, x)
         IN  <<m>> \o sorted_reversed(S \ {m})

\* sorted(S) of a set of str
RECURSIVE sorted(_)
sorted(S) ==
    IF S = {} THEN << >>
    ELSE LET m == CHOOSE x \in S : \A y \in S : x = y \/ StrLess(x, y)
         IN  <<m>> \o sorted(S \ {m})

\* sep.join(parts)
RECURSIVE join(_, _)
join(sep, parts) ==
    IF parts = << >> THEN ""
    ELSE IF Len(parts) = 1 THEN parts[1]
    ELSE parts[1] \o sep \o join(sep, Tail(parts))

(***************************************************************************)
(* generate_summary                                                        *)
(***************************************************************************)
SummaryColumns ==
    {"TEST_TYPE", "DCR_Freq_[Hz]", "DCR_Level_[%]", "DCR_Criteria",
     "ACV_Apply", "ACV_Freq_[Hz]", "ACV_Red_[%]", "ACV_Dur_[Cycles]",
     "ACV_Dur_[ms]", "ACV_Cross_[deg]", "ACV_Criteria"}

EmptyMessage == "No test plan available for the selected criteria."

\* row.get(col, default)
RowGet(d, row, col, default) ==
    IF col \in d.columns THEN row.cell[col] ELSE default

\* Series.unique(): the values in the order of their first appearance
RECURSIVE unique(_)
unique(series) ==
    IF series = << >> THEN << >>
    ELSE LET rest == unique(SubSeq(series, 1, Len(series) - 1))
             v == series[Len(series)].value
         IN  IF \E k \in 1..Len(rest) : rest[k] = v THEN rest ELSE Append(rest, v)

\* a plausible slip: the criteria is left out of the line
dc_ripple_line_nocriteria(d, row) ==
    "DC Ripple: Frequency " \o PyFormat(RowGet(d, row, "DCR_Freq_[Hz]", PyStr("N/A")))
        \o " Hz, Level " \o PyFormat(RowGet(d, row, "DCR_Level_[%]", PyStr("N/A"))) \o "%"

\* the line of one DC Ripple row
dc_ripple_line(d, row) ==
    LET frequency == RowGet(d, row, "DCR_Freq_[Hz]", PyStr("N/A"))
        level == RowGet(d, row, "DCR_Level_[%]", PyStr("N/A"))
        criteria == RowGet(d, row, "DCR_Criteria", PyStr("N/A"))
    IN  "DC Ripple: Frequency " \o PyFormat(frequency) \o " Hz, Level " \o PyFormat(level)
            \o "%, Criteria " \o PyFormat(criteria)

\* the duration string of one AC VDI row
duration_str(duration_cycles, duration_ms) ==
    join(", ",
         (IF notnull(duration_cycles) THEN <<PyFormat(duration_cycles) \o " cycles">> ELSE << >>)
         \o (IF notnull(duration_ms) THEN <<PyFormat(duration_ms) \o " ms">> ELSE << >>))

\* the line of one AC VDI row around its duration string
ac_vdi_text(d, row, duration) ==
    LET applicability == RowGet(d, row, "ACV_Apply", PyStr("N/A"))
        frequency == RowGet(d, row, "ACV_Freq_[Hz]", PyStr("N/A"))
        reduction == RowGet(d, row, "ACV_Red_[%]", PyStr("N/A"))
        crossing == RowGet(d, row, "ACV_Cross_[deg]", PyStr("N/A"))
        criteria == RowGet(d, row, "ACV_Criteria", PyStr("N/A"))
    IN  "AC VDI: Applicability " \o PyFormat(applicability) \o ", Frequency "
            \o PyFormat(frequency) \o " Hz, Reduction " \o PyFormat(reduction)
            \o "%, Duration " \o duration \o ", Crossing " \o PyFormat(crossing)
            \o "Â°, Criteria " \o PyFormat(criteria)

ac_vdi_line(d, row) ==
    ac_vdi_text(d, row, duration_str(RowGet(d, row, "ACV_Dur_[Cycles]", PyNone),
                                      RowGet(d, row, "ACV_Dur_[ms]", PyNone)))

\* the lines the loop body adds for one test type, in the order of the rows
\* of filtered_df[filtered_df['TEST_TYPE'] == test_type]
RECURSIVE lines_of_subset(_, _, _)
lines_of_subset(d, rows, test_type) ==
    IF rows = << >> THEN << >>
    ELSE LET row == Head(rows)
             rest == lines_of_subset(d, Tail(rows), test_type)
         IN  IF row.cell["TEST_TYPE"] # test_type THEN rest
             ELSE IF test_type = PyStr("DC Ripple") THEN <<dc_ripple_line(d, row)>> \o rest
             ELSE <<ac_vdi_line(d, row)>> \o rest

lines_of_type(d, test_type) ==
    IF test_type = PyStr("DC Ripple") \/ test_type = PyStr("AC VDI")
    THEN lines_of_subset(d, d.rows, test_type)
    ELSE <<"No specialized summary for TEST_TYPE: " \o PyFormat(test_type)>>

\* every summary_lines.add of the loop over test_types, in order
RECURSIVE added_lines(_, _)
added_lines(d, test_types) ==
    IF test_types = << >> THEN << >>
    ELSE lines_of_type(d, Head(test_types)) \o added_lines(d, Tail(test_types))

\* a plausible slip: only a frame without columns counts as empty
generate_summary_columns_only(filtered_df) ==
    IF filtered_df.columns = {} THEN EmptyMessage
    ELSE LET added == added_lines(filtered_df, unique(Get(filtered_df, "TEST_TYPE", EmptySeries)))
         IN  join("\n", sorted({added[i] : i \in 1..Len(added)}))

generate_summary(filtered_df) ==
    IF IsEmpty(filtered_df) THEN EmptyMessage
    ELSE LET test_types == unique(Get(filtered_df, "TEST_TYPE", EmptySeries))
             added == added_lines(filtered_df, test_types)
             summary_lines == {added[i] : i \in 1..Len(added)}
         IN  join("\n", sorted(summary_lines))

(***************************************************************************)
(* The calls of generate_summary that are checked: frames of at most       *)
(* MaxRows rows drawn from DC Ripple, AC VDI and other rows, with every    *)
(* column, with one column absent or with no column at all.                *)
(***************************************************************************)
BlankRow == [c \in SummaryColumns |-> NaN]

DCRows ==
    {[BlankRow EXCEPT !["TEST_TYPE"] = PyStr("DC Ripple"), !["DCR_Freq_[Hz]"] = f,
                      !["DCR_Level_[%]"] = PyInt(10), !["DCR_Criteria"] = c] :
        f \in {PyInt(60), PyFloat(500)}, c \in {PyStr("A"), PyStr("B")}}

ACRows ==
    {[BlankRow EXCEPT !["TEST_TYPE"] = PyStr("AC VDI"), !["ACV_Apply"] = PyStr("Port1"),
                      !["ACV_Freq_[Hz]"] = PyInt(50), !["ACV_Red_[%]"] = PyInt(30),
                      !["ACV_Dur_[Cycles]"] = cy, !["ACV_Dur_[ms]"] = ms,
                      !["ACV_Cross_[deg]"] = PyInt(0), !["ACV_Criteria"] = PyStr("C")] :
        cy \in {NaN, PyFloat(30), PyInt(1)}, ms \in {NaN, PyFloat(25)}}

OtherRows == {[BlankRow EXCEPT !["TEST_TYPE"] = PyStr("Surge")]}

SummaryRows == DCRows \cup ACRows \cup OtherRows

SummaryFrames ==
    UNION {Frames(SummaryColumns, SummaryRows, missing) :
             missing \in {{}} \cup {{c} : c \in SummaryColumns} \cup {SummaryColumns}}

InitSummary ==
    /\ pc = "ready"
    /\ df \in SummaryFrames
    /\ sel = NoSelection
    /\ ret = NoCall
    /\ ret2 = NoCall
    /\ ScannerIdle
    /\ PageIdle

\* generate_summary(df) is called
CallSummary ==
    /\ pc = "ready"
    /\ ret' = Returned(generate_summary(df))
    /\ pc' = "returned"
    /\ UNCHANGED <<df, sel, ret2, scannerVars, pageVars>>

NextSummary == CallSummary

SpecSummary == InitSummary /\ [][NextSummary]_vars

(***************************************************************************)
(* camera_data_collection                                                  *)
(***************************************************************************)
IsDigit(c) == c \in {"0", "1", "2", "3", "4", "5", "6", "7", "8", "9"}

CharAt(text, i) == SubSeq(text, i, i)

\* the end of the longest run of digits that starts at position i
DigitsEnd(text, i) ==
    CHOOSE j \in (i - 1)..Len(text) :
        /\ \A k \in i..j : IsDigit(CharAt(text, k))
        /\ j = Len(text) \/ ~IsDigit(CharAt(text, j + 1))

\* re.findall(r"CIS-(\d+)", text) from position i on: the leftmost match, its
\* digits taken greedily, then the search goes on behind it
RECURSIVE findall_from(_, _)
findall_from(text, i) ==
    IF i > Len(text) THEN << >>
    ELSE IF /\ i + 4 <= Len(text)
            /\ SubSeq(text, i, i + 3) = "CIS-"
            /\ IsDigit(CharAt(text, i + 4))
         THEN LET e == DigitsEnd(text, i + 4)
              IN  <<SubSeq(text, i + 4, e)>> \o findall_from(text, e + 1)
         ELSE findall_from(text, i + 1)

findall(text) == findall_from(text, 1)

\* "number not in st.session_state['cis_numbers']"
Contains(list, number) == \E k \in 1..Len(list) : list[k] = number

\* a plausible slip: the number is appended without the membership test
RECURSIVE add_found_unchecked(_, _)
add_found_unchecked(list, found_numbers) ==
    IF found_numbers = << >> THEN list
    ELSE add_found_unchecked(Append(list, Head(found_numbers)), Tail(found_numbers))

\* the loop of lines 37-39 over found_numbers
RECURSIVE add_found(_, _)
add_found(list, found_numbers) ==
    IF found_numbers = << >> THEN list
    ELSE add_found(IF Contains(list, Head(found_numbers)) THEN list
                   ELSE Append(list, Head(found_numbers)),
                   Tail(found_numbers))

\* list.pop(i), i counted from 0
pop(list, i) == SubSeq(list, 1, i) \o SubSeq(list, i + 2, Len(list))

\* the loop of lines 58-59: the indices are popped from the largest down
RECURSIVE pop_all(_, _)
pop_all(list, indices_to_delete) ==
    IF indices_to_delete = {} THEN list
    ELSE LET i == CHOOSE x \in indices_to_delete : \A y \in indices_to_delete : y <= x
         IN  pop_all(pop(list, i), indices_to_delete \ {i})

\* lines 17-39 of one run of the script: the key is set if it is not there,
\* and the numbers of the photo, if there is one, are added
scanned(state, image) ==
    LET list == IF state.present THEN state.items ELSE << >>
    IN  [present |-> TRUE,
         items |-> IF image.isNone THEN list ELSE add_found(list, findall(image.text))]

\* lines 46-60: the clicked buttons' indices are removed
removed(state, clicked) == [state EXCEPT !.items = pop_all(state.items, clicked)]

(***************************************************************************)
(* The scanner session: the page is loaded, photos are taken and cleared,  *)
(* X buttons are clicked.  A photo's text is at most MaxText pieces, each  *)
(* "CIS-", the digit 1 or another character; the list is kept to MaxList.      *)
(***************************************************************************)
Pieces == {"CIS-", "1", "x"}

RECURSIVE concat(_)
concat(parts) == IF parts = << >> THEN "" ELSE Head(parts) \o concat(Tail(parts))

OcrTexts == UNION {{concat(parts) : parts \in [1..n -> Pieces]} : n \in 0..MaxText}

Photo(text) == [isNone |-> FALSE, text |-> text]

InitScanner ==
    /\ pc = "new"
    /\ CallIdle
    /\ ScannerIdle
    /\ PageIdle

\* the page is opened: the script runs without a photo
OpenPage ==
    /\ pc = "new"
    /\ cis_numbers' = scanned(cis_numbers, captured_image)
    /\ pc' = "idle"
    /\ UNCHANGED <<captured_image, last, callVars, pageVars>>

\* a photo is taken: the script runs with it
TakePhoto ==
    /\ pc = "idle"
    /\ \E text \in OcrTexts :
          /\ captured_image' = Photo(text)
          /\ cis_numbers' = scanned(cis_numbers, Photo(text))
    /\ Len(cis_numbers'.items) <= MaxList
    /\ last' = {}
    /\ UNCHANGED <<pc, callVars, pageVars>>

\* the photo is cleared: the script runs without it
ClearPhoto ==
    /\ pc = "idle"
    /\ ~captured_image.isNone
    /\ captured_image' = NoPhoto
    /\ cis_numbers' = scanned(cis_numbers, NoPhoto)
    /\ last' = {}
    /\ UNCHANGED <<pc, callVars, pageVars>>

\* X buttons are clicked: the script runs, removes the clicked indices and
\* asks for a rerun
ClickRemove ==
    /\ pc = "idle"
    /\ \E clicked \in SUBSET (0..(Len(cis_numbers.items) - 1)) :
          /\ clicked # {}
          /\ last' = clicked
          /\ cis_numbers' = removed(scanned(cis_numbers, captured_image), clicked)
    /\ pc' = "rerun"
    /\ UNCHANGED <<captured_image, callVars, pageVars>>

\* st.experimental_rerun(): the script runs again, the photo still in the widget
Rerun ==
    /\ pc = "rerun"
    /\ cis_numbers' = scanned(cis_numbers, captured_image)
    /\ last' = {}
    /\ pc' = "idle"
    /\ UNCHANGED <<captured_image, callVars, pageVars>>

NextScanner == OpenPage \/ TakePhoto \/ ClearPhoto \/ ClickRemove \/ Rerun

SpecScanner == InitScanner /\ [][NextScanner]_vars

(***************************************************************************)
(* load_data, remove_empty_columns and main.  A run of main is recorded as *)
(* the sequence of what it did: the elements it wrote to the page and the  *)
(* calls it made.                                                          *)
(***************************************************************************)
Event(kind, text, frame) == [kind |-> kind, text |-> text, frame |-> frame]
Wrote(kind, text) == Event(kind, text, NoFrame)

\* pd.DataFrame()
EmptyFrame == [columns |-> {}, rows |-> << >>]

\* a plausible slip: no try/except around read_csv, the failure propagates
load_data_unguarded(fetched) ==
    IF fetched.ok
    THEN [events |-> <<Wrote("read_csv", "returned")>>, result |-> Returned(fetched.value)]
    ELSE [events |-> <<Wrote("read_csv", "raised")>>, result |-> Raised(fetched.exc)]

\* the body of load_data on what read_csv did: the data, or st.error and an
\* empty frame
load_data(fetched) ==
    IF fetched.ok
    THEN [events |-> <<Wrote("read_csv", "returned")>>, result |-> Returned(fetched.value)]
    ELSE [events |-> <<Wrote("read_csv", "raised"),
                       Wrote("error", "Error loading data: " \o fetched.exc)>>,
          result |-> Returned(EmptyFrame)]

\* remove_empty_columns: df.dropna(how="all", axis=1)
remove_empty_columns(d) ==
    LET kept == {c \in d.columns : \E i \in 1..Len(d.rows) : d.rows[i].cell[c] # NaN}
    IN  [columns |-> kept,
         rows |-> [i \in 1..Len(d.rows) |->
                     [index |-> d.rows[i].index,
                      cell |-> [c \in kept |-> d.rows[i].cell[c]]]]]

\* sorted(df[col].dropna().unique().tolist()), the options of a multiselect
Options(d, col) ==
    sorted({d.rows[i].cell[col].s : i \in {k \in 1..Len(d.rows) : d.rows[k].cell[col] # NaN}})

\* lines 157-181: the five multiselects in order; a column that is missing is
\* a KeyError at its multiselect
RECURSIVE form(_, _)
form(d, cols) ==
    IF cols = << >> THEN <<Wrote("form_submit_button", "Submit Filters")>>
    ELSE IF Head(cols) \notin d.columns THEN <<Wrote("exception", "KeyError")>>
    ELSE <<Wrote("multiselect", Head(cols))>> \o form(d, Tail(cols))

\* lines 184-226: what main does once the form is drawn
after_form(d, s, submit_button) ==
    IF ~submit_button
    THEN <<Wrote("info", "Select filters in the sidebar and click **Submit Filters** to generate a test plan.")>>
    ELSE LET r == filter_database(d, s)
         IN  <<Wrote("filter_database", "called")>> \o
             IF ~r.ok THEN <<Wrote("exception", r.exc)>>
             ELSE LET filtered_df == remove_empty_columns(r.value)
                  IN  <<Wrote("header", "Generated Test Plan")>> \o
                      IF ~IsEmpty(filtered_df)
                      THEN <<Wrote("success", "Found " \o ToString(Len(filtered_df.rows))
                                                \o " matching rows."),
                             Event("dataframe", "", filtered_df),
                             Wrote("subheader", "Test Plan Summary"),
                             Wrote("generate_summary", "called"),
                             Wrote("text", generate_summary(filtered_df)),
                             Event("download_button", "filtered_test_plan.csv", filtered_df)>>
                      ELSE <<Wrote("warning", "No matching test cases found. Please modify your selections.")>>

\* one run of main on what load_data gave, the lists chosen in the form and
\* whether the form was submitted
main(loaded, s, submit_button) ==
    <<Wrote("title", "Enhanced EMC Test Plan Generator"),
      Wrote("write", "Use the filters in the sidebar to refine which test cases appear below. "
                       \o "Click **Submit Filters** to generate your custom test plan.")>>
    \o loaded.events \o
    IF ~loaded.result.ok THEN <<Wrote("exception", loaded.result.exc)>>
    ELSE LET d == loaded.result.value
         IN  IF IsEmpty(d)
             THEN <<Wrote("error", "No data available. Please check your database connection.")>>
             ELSE LET drawn == form(d, Facets)
                  IN  drawn \o (IF drawn[Len(drawn)].kind = "exception" THEN << >>
                                ELSE after_form(d, s, submit_button))

(***************************************************************************)
(* The page: every run of main first asks load_data for the data; the      *)
(* first run fetches it (the fetch fails or gives a frame of at most       *)
(* MaxRows rows), the later runs get what st.cache_data kept.              *)
(***************************************************************************)
PageColumns == FacetSet \cup SummaryColumns

PageFacets ==
    {[c \in FacetSet |-> PyStr("a")],
     [[c \in FacetSet |-> PyStr("a")] EXCEPT !["PRODUCT_FEATURE"] = PyStr("b")],
     [[c \in FacetSet |-> PyStr("a")] EXCEPT !["ENTITY"] = PyStr("b")]}

PageTests ==
    {[BlankRow EXCEPT !["TEST_TYPE"] = PyStr("DC Ripple"), !["DCR_Freq_[Hz]"] = PyFloat(600),
                      !["DCR_Level_[%]"] = PyFloat(100), !["DCR_Criteria"] = PyStr("A")],
     [BlankRow EXCEPT !["TEST_TYPE"] = PyStr("AC VDI"), !["ACV_Apply"] = PyStr("Port1"),
                      !["ACV_Freq_[Hz]"] = PyFloat(500), !["ACV_Red_[%]"] = PyFloat(300),
                      !["ACV_Dur_[Cycles]"] = PyFloat(30),
                      !["ACV_Cross_[deg]"] = PyFloat(0), !["ACV_Criteria"] = PyStr("C")]}

PageRows ==
    {[c \in PageColumns |-> IF c \in FacetSet THEN f[c] ELSE t[c]] :
        f \in PageFacets, t \in PageTests}

\* what read_csv gives: a frame, with at most one facet column missing
PageFrames ==
    UNION {Frames(PageColumns, PageRows, missing) : missing \in {{}} \cup {{c} : c \in FacetSet}}

Fetches == {Returned(d) : d \in PageFrames} \cup {Raised("HTTP Error 404: Not Found")}

\* the lists a multiselect can hand over: some of its options, in their order
Choices(options) ==
    {RowsAt(options, S) : S \in SUBSET (1..Len(options))}

PageSelections(d) ==
    IF IsEmpty(d) \/ ~(FacetSet \subseteq d.columns) THEN {NoSelection}
    ELSE {[product_features |-> List([i \in 1..Len(a) |-> PyStr(a[i])]),
           entities |-> List([i \in 1..Len(b) |-> PyStr(b[i])]),
           port_types |-> List([i \in 1..Len(c) |-> PyStr(c[i])]),
           voltage_types |-> List([i \in 1..Len(e) |-> PyStr(e[i])]),
           voltages |-> List([i \in 1..Len(f) |-> PyStr(f[i])])] :
             a \in Choices(Options(d, "PRODUCT_FEATURE")),
             b \in Choices(Options(d, "ENTITY")),
             c \in Choices(Options(d, "PORT_TYPE")),
             e \in Choices(Options(d, "VOLTAGE_TYPE")),
             f \in Choices(Options(d, "VOLTAGES"))}

InitPage ==
    /\ pc = "new"
    /\ CallIdle
    /\ ScannerIdle
    /\ PageIdle

\* a run of main with nothing in the cache: load_data runs and is cached
RunFetching ==
    /\ ~cache.hit
    /\ \E fetched \in Fetches :
          LET loaded == load_data(fetched)
          IN  /\ cache' = [hit |-> loaded.result.ok, failed |-> ~fetched.ok,
                           data |-> IF loaded.result.ok THEN loaded.result.value ELSE NoFrame]
              /\ \E s \in (IF loaded.result.ok THEN PageSelections(loaded.result.value)
                           ELSE {NoSelection}), submit_button \in BOOLEAN :
                    ui' = main(loaded, s, submit_button)
    /\ pc' = "ran"
    /\ UNCHANGED <<callVars, scannerVars>>

\* a run of main with the cache filled: load_data's body does not run; the
\* cache may write the st.error of the cached call to the page again
RunCached ==
    /\ cache.hit
    /\ \E replayed \in BOOLEAN, s \in PageSelections(cache.data), submit_button \in BOOLEAN :
          /\ replayed => cache.failed
          /\ ui' = main([events |-> IF replayed
                                    THEN <<Wrote("error", "Error loading data: HTTP Error 404: Not Found")>>
                                    ELSE << >>,
                         result |-> Returned(cache.data)], s, submit_button)
    /\ pc' = "ran"
    /\ UNCHANGED <<cache, callVars, scannerVars>>

NextPage == RunFetching \/ RunCached

SpecPage == InitPage /\ [][NextPage]_vars

(***************************************************************************)
(* Claims about filter_database.                                           *)
(***************************************************************************)
Called == pc \in {"returned", "refiltered"}

Items(x) == {x.items[k] : k \in 1..Len(x.items)}

\* the facets the call constrains
Constrained(s) == {c \in FacetSet : Truthy(ParamOf(s, c))}

\* a record passes when, for every constrained facet, it has a value for the
\* facet and the value is one of the accepted ones
Passes(d, row, s) ==
    \A c \in Constrained(s) : c \in d.columns /\ row.cell[c] \in Items(ParamOf(s, c))

ExpectedSubset(d, s) ==
    [d EXCEPT !.rows = RowsAt(d.rows, {i \in 1..Len(d.rows) : Passes(d, d.rows[i], s)})]

\* C1: filter_database returns exactly the records that pass every
\* constrained facet (AND across facets, an empty or omitted list is no
\* constraint), in the order they have in the dataset.
C1_ExactSubsetInOrder == Called => ret = Returned(ExpectedSubset(df, sel))

\* C4: filter_database never raises, and a constraint on a facet whose
\* column is missing, or none of whose accepted values occurs in the
\* dataset, leaves zero records.
C4_NoErrorOutcome ==
    Called =>
        /\ ret.ok
        /\ \A c \in Constrained(sel) :
              (\/ c \notin df.columns
               \/ \A i \in 1..Len(df.rows) : df.rows[i].cell[c] \notin Items(ParamOf(sel, c)))
              => ret.value.rows = << >>

\* C8: filtering the frame filter_database returned again, with the same
\* lists, returns the same records in the same order.
C8_Idempotent == pc = "refiltered" => ret2 = ret

C8_Witness ==
    /\ pc = "refiltered"
    /\ Len(df.rows) = 2
    /\ Len(ret.value.rows) = 1
    /\ ret.value.rows[1].index = 1

\* C9: with every list empty or omitted, filter_database returns the
\* dataset's records unchanged in content and in order.
C9_EmptySelectionIsIdentity ==
    (Called /\ Constrained(sel) = {}) => ret = Returned(df)

C9_Witness ==
    /\ Called
    /\ Constrained(sel) = {}
    /\ sel.entities = List(<< >>)
    /\ sel.voltages = None
    /\ Len(df.rows) = 2
    /\ df.rows[1] # df.rows[2]

(***************************************************************************)
(* Claims about generate_summary.                                          *)
(***************************************************************************)
\* text.split("\n"), and no line at all for the empty text
LinesOf(text) ==
    LET breaks == {i \in 1..Len(text) : SubSeq(text, i, i) = "\n"}
        ends == breaks \cup {Len(text) + 1}
        EndOf(j) == CHOOSE e \in ends : Cardinality({x \in ends : x < e}) = j - 1
        StartOf(j) == IF j = 1 THEN 1 ELSE EndOf(j - 1) + 1
    IN  IF text = "" THEN << >>
        ELSE [j \in 1..Cardinality(ends) |-> SubSeq(text, StartOf(j), EndOf(j) - 1)]

ReportLines == LinesOf(ret.value)
ReportLineSet == {ReportLines[i] : i \in 1..Len(ReportLines)}

HasRows(d) == ~IsEmpty(d) /\ "TEST_TYPE" \in d.columns

RowsOfType(d, name) ==
    {i \in 1..Len(d.rows) : d.rows[i].cell["TEST_TYPE"] = PyStr(name)}

\* the text the claims give a value: digits for an int, "3.0" and "2.5" for
\* the floats, the string itself, "nan" for an unset cell, "N/A" for a cell
\* of a missing column
Shown(d, row, col) ==
    IF col \notin d.columns THEN "N/A"
    ELSE LET v == row.cell[col]
         IN  CASE v = NaN -> "nan"
               [] v = PyInt(0) -> "0"
               [] v = PyInt(1) -> "1"
               [] v = PyInt(10) -> "10"
               [] v = PyInt(30) -> "30"
               [] v = PyInt(50) -> "50"
               [] v = PyInt(60) -> "60"
               [] v = PyFloat(25) -> "2.5"
               [] v = PyFloat(30) -> "3.0"
               [] v = PyFloat(500) -> "50.0"
               [] OTHER -> v.s

Present(d, row, col) == col \in d.columns /\ row.cell[col] # NaN

\* the criteria of the DC Ripple rows that share row i's frequency and level
GroupCriteria(d, i) ==
    {Shown(d, d.rows[j], "DCR_Criteria") :
        j \in {k \in RowsOfType(d, "DC Ripple") :
                 /\ Present(d, d.rows[k], "DCR_Criteria")
                 /\ Shown(d, d.rows[k], "DCR_Freq_[Hz]") = Shown(d, d.rows[i], "DCR_Freq_[Hz]")
                 /\ Shown(d, d.rows[k], "DCR_Level_[%]") = Shown(d, d.rows[i], "DCR_Level_[%]")}}

GroupedLine(d, i) ==
    "Frequency: " \o Shown(d, d.rows[i], "DCR_Freq_[Hz]") \o " Hz, Level: "
        \o Shown(d, d.rows[i], "DCR_Level_[%]") \o "%, Criteria: "
        \o (IF GroupCriteria(d, i) = {} THEN "TBD" ELSE join(", ", sorted(GroupCriteria(d, i))))

AllOfType(d, name) == HasRows(d) /\ RowsOfType(d, name) = 1..Len(d.rows)

\* C2 as stated: the DC Ripple rows give one line per (frequency, level)
\* group, listing the group's sorted criteria joined by comma ("TBD" if none).
C2_OneLinePerGroup ==
    (Called /\ AllOfType(df, "DC Ripple")) =>
        ReportLineSet = {GroupedLine(df, i) : i \in 1..Len(df.rows)}

PerRowLine(d, row) ==
    "DC Ripple: Frequency " \o Shown(d, row, "DCR_Freq_[Hz]") \o " Hz, Level "
        \o Shown(d, row, "DCR_Level_[%]") \o "%, Criteria " \o Shown(d, row, "DCR_Criteria")

TwoRipples(d) ==
    /\ d.columns = SummaryColumns
    /\ Len(d.rows) = 2
    /\ \A i \in 1..2 :
         /\ d.rows[i].cell["TEST_TYPE"] = PyStr("DC Ripple")
         /\ d.rows[i].cell["DCR_Freq_[Hz]"] = PyInt(60)
         /\ d.rows[i].cell["DCR_Level_[%]"] = PyInt(10)
    /\ {d.rows[i].cell["DCR_Criteria"] : i \in 1..2} = {PyStr("A"), PyStr("B")}

\* C2 as amended: the DC Ripple rows give one line per distinct (frequency,
\* level, criteria), "DC Ripple: Frequency f Hz, Level l%, Criteria c", each
\* value as str() shows it; the rows 60/10/"A" and 60/10/"B" give two lines.
C2_OneLinePerTriple ==
    /\ (Called /\ HasRows(df)) =>
          {l \in ReportLineSet : SubSeq(l, 1, 10) = "DC Ripple:"}
              = {PerRowLine(df, df.rows[i]) : i \in RowsOfType(df, "DC Ripple")}
    /\ (Called /\ TwoRipples(df)) =>
          ret.value = "DC Ripple: Frequency 60 Hz, Level 10%, Criteria A\n"
                        \o "DC Ripple: Frequency 60 Hz, Level 10%, Criteria B"

C2_Witness == Called /\ TwoRipples(df) /\ Len(ReportLines) = 2

\* the duration the claim describes: a whole number without its fraction,
\* "-" when neither part is present
ClaimedPart(d, row, col, unit) ==
    IF ~Present(d, row, col) THEN << >>
    ELSE LET v == row.cell[col]
         IN  <<(IF v.t = "float" /\ v.n % 10 = 0 THEN ToString(v.n \div 10)
                ELSE Shown(d, row, col)) \o unit>>

ClaimedDuration(d, row) ==
    LET parts == ClaimedPart(d, row, "ACV_Dur_[Cycles]", " cycles")
                    \o ClaimedPart(d, row, "ACV_Dur_[ms]", " ms")
    IN  IF parts = << >> THEN "-" ELSE join(", ", parts)

\* the duration the code composes: each part as str() shows it, and the empty
\* string when neither part is present
ShownPart(d, row, col, unit) ==
    IF ~Present(d, row, col) THEN << >> ELSE <<Shown(d, row, col) \o unit>>

ShownDuration(d, row) ==
    join(", ", ShownPart(d, row, "ACV_Dur_[Cycles]", " cycles")
                 \o ShownPart(d, row, "ACV_Dur_[ms]", " ms"))

\* C3 as stated: the duration of an AC VDI row shows a whole value as an
\* integer and is "-" when neither cycles nor milliseconds is present.
C3_DurationAsClaimed ==
    (Called /\ HasRows(df)) =>
        \A i \in RowsOfType(df, "AC VDI") :
            ac_vdi_text(df, df.rows[i], ClaimedDuration(df, df.rows[i])) \in ReportLineSet

ACRowWith(d, i, cycles, ms) ==
    /\ d.columns = SummaryColumns
    /\ i \in RowsOfType(d, "AC VDI")
    /\ d.rows[i].cell["ACV_Dur_[Cycles]"] = cycles
    /\ d.rows[i].cell["ACV_Dur_[ms]"] = ms

ACText(duration) ==
    "AC VDI: Applicability Port1, Frequency 50 Hz, Reduction 30%, Duration " \o duration
        \o ", Crossing 0Â°, Criteria C"

\* C3 as amended: each present part is shown as str() shows the value (3.0 is
\* "3.0", 2.5 is "2.5", the integer 1 is "1") with its unit, the parts are
\* joined with ", ", and the duration is empty when neither is present.
C3_DurationAsShown ==
    (Called /\ HasRows(df)) =>
        \A i \in RowsOfType(df, "AC VDI") :
            /\ ac_vdi_text(df, df.rows[i], ShownDuration(df, df.rows[i])) \in ReportLineSet
            /\ ACRowWith(df, i, PyFloat(30), NaN) => ACText("3.0 cycles") \in ReportLineSet
            /\ ACRowWith(df, i, NaN, PyFloat(25)) => ACText("2.5 ms") \in ReportLineSet
            /\ ACRowWith(df, i, NaN, NaN) => ACText("") \in ReportLineSet
            /\ ACRowWith(df, i, PyFloat(30), PyFloat(25))
                  => ACText("3.0 cycles, 2.5 ms") \in ReportLineSet
            /\ ACRowWith(df, i, PyInt(1), NaN) => ACText("1 cycles") \in ReportLineSet

C3_Witness ==
    /\ Called
    /\ Len(df.rows) = 2
    /\ ACRowWith(df, 1, PyFloat(30), PyFloat(25))
    /\ ACRowWith(df, 2, NaN, NaN)
    /\ Len(ReportLines) = 2

\* C7: a subset with no rows gives exactly the fixed empty-state message,
\* whatever its columns.
C7_EmptyMessage ==
    (Called /\ Len(df.rows) = 0) =>
        ret = Returned("No test plan available for the selected criteria.")

C7_Witness ==
    /\ Called
    /\ Len(df.rows) = 0
    /\ "TEST_TYPE" \in df.columns
    /\ "DCR_Criteria" \notin df.columns
    /\ ReportLines = <<EmptyMessage>>

\* the frames with the rows of d in another order, and with a row repeated
Reordered(d) ==
    {[d EXCEPT !.rows = [i \in 1..Len(d.rows) |-> d.rows[p[i]]]] :
        p \in {q \in [1..Len(d.rows) -> 1..Len(d.rows)] :
                 \A i, j \in 1..Len(d.rows) : i # j => q[i] # q[j]}}
    \cup {[d EXCEPT !.rows = Append(d.rows, [d.rows[i] EXCEPT !.index = Len(d.rows)])] :
            i \in 1..Len(d.rows)}

\* C10: the report of a non-empty subset has no line twice, its lines ascend
\* in lexicographic order, and it is the same for the same rows in any order.
C10_SortedUniqueLines ==
    (Called /\ ~IsEmpty(df)) =>
        /\ \A i, j \in 1..Len(ReportLines) : i < j => StrLess(ReportLines[i], ReportLines[j])
        /\ \A d \in Reordered(df) : generate_summary(d) = ret.value

C10_Witness ==
    /\ Called
    /\ df.columns = SummaryColumns
    /\ Len(df.rows) = 2
    /\ df.rows[1].cell["TEST_TYPE"] = PyStr("Surge")
    /\ df.rows[2].cell["TEST_TYPE"] = PyStr("AC VDI")
    /\ Len(ReportLines) = 2
    /\ SubSeq(ReportLines[1], 1, 6) = "AC VDI"

(***************************************************************************)
(* Claims about camera_data_collection.                                    *)
(***************************************************************************)
NoValueTwice(list) == \A i, j \in 1..Len(list) : i # j => list[i] # list[j]

\* the list without the entries at the given indices (counted from 0)
Without(list, indices) ==
    RowsAt(list, {i \in 1..Len(list) : (i - 1) \notin indices})

\* C5: through scans and removals the list never holds a value twice, not
\* even a number found several times in one scan, and a removal takes out
\* exactly the entries at the requested indices.
C5_NoDuplicates ==
    /\ [](NoValueTwice(cis_numbers.items))
    /\ [][pc' = "rerun" => cis_numbers'.items = Without(cis_numbers.items, last')]_vars

C5_Witness ==
    /\ pc = "rerun"
    /\ last = {0}
    /\ Len(cis_numbers.items) = 1
    /\ ~captured_image.isNone
    /\ \E i, j \in 1..Len(findall(captured_image.text)) :
          i # j /\ findall(captured_image.text)[i] = findall(captured_image.text)[j]

(***************************************************************************)
(* Claims about load_data and main.                                        *)
(***************************************************************************)
Kinds(events) == {events[i].kind : i \in 1..Len(events)}

\* the run fetched the data and the fetch failed
LoadFailed == \E i \in 1..Len(ui) : ui[i] = Wrote("read_csv", "raised")

\* what the run did after read_csv
AfterFetch ==
    LET i == CHOOSE k \in 1..Len(ui) : ui[k].kind = "read_csv"
    IN  SubSeq(ui, i + 1, Len(ui))

\* C6: when the load fails, load_data writes an error and returns an empty
\* dataset instead of raising, and the run of main reports that no data is
\* available and ends: no form, no filter_database, no generate_summary.
C6_LoadFailureIsNoData ==
    LoadFailed =>
        /\ cache.hit /\ cache.failed /\ IsEmpty(cache.data)
        /\ Len(AfterFetch) = 2
        /\ AfterFetch[1].kind = "error"
        /\ SubSeq(AfterFetch[1].text, 1, 19) = "Error loading data:"
        /\ AfterFetch[2] = Wrote("error", "No data available. Please check your database connection.")
        /\ Kinds(ui) \cap {"exception", "multiselect", "form_submit_button", "filter_database",
                           "generate_summary"} = {}

C6_Witness ==
    /\ pc = "ran"
    /\ LoadFailed
    /\ Kinds(ui) = {"title", "write", "read_csv", "error"}

====
